---- MODULE Spec2Model ----
(***************************************************************************)
(* dht11_gpio: the DHT11 read of src/src/lib.rs as a state machine.        *)
(*                                                                         *)
(*   Spec         read_sensor_data, statement by statement, on a level     *)
(*                sequence returned by collect_input (drawn from Captures) *)
(*   CaptureSpec  the busy-poll loop of collect_input against a free line  *)
(*                and a millisecond clock (FairCaptureSpec: with fairness) *)
(*   BitsSpec     calculate_bits on duration lists of any length/magnitude *)
(*   PackSpec     bits_to_bytes on 40-bit sequences                        *)
(*   ChecksumSpec the checksum validation on 5-byte frames                 *)
(***************************************************************************)
EXTENDS Integers, Sequences, FiniteSets

(***************************************************************************)
(* Program constants                                                       *)
(***************************************************************************)
\* const TIMEOUT_DURATION: u128 = 200; // milliseconds
TIMEOUT_DURATION == 200
\* let mut shortest_pull_up: usize = 1000;
SHORTEST_INIT == 1000
\* let mut longest_pull_up: usize = 0;
LONGEST_INIT == 0
\* if pull_up_lengths.len() != 40
FRAME_BITS == 40
\* if (i + 1) % 8 == 0
BYTE_BITS == 8
\* ... & 255
CHECKSUM_MASK == 255

(***************************************************************************)
(* Bounds of the model                                                     *)
(***************************************************************************)
\* arbitrary (noise) captures have 1..MaxNoise samples
MaxNoise == 5
\* a pull-up pulse of a generated frame lasts 1..MaxPulse samples
MaxPulse == 3
\* a generated frame loses up to MaxCut of its last pulses
MaxCut == 1
\* a generated frame carries up to MaxExtra pulses after its 40th
MaxExtra == 1
\* duration lists handed to calculate_bits alone have 1..MaxDurations entries
MaxDurations == 3
\* scale factors 1..MaxScale
MaxScale == 3
\* the capture model keeps the first MaxSamples samples of data
MaxSamples == 4
\* the capture model's clock since the start of the capture saturates here
MaxClock == 500
\* the greatest small duration of a uniform pulse train
MaxUniform == 30

Low == "Low"
High == "High"
Level == {Low, High}

(***************************************************************************)
(* Sequence helpers                                                        *)
(***************************************************************************)
Rep(x, n) == [i \in 1..n |-> x]

RECURSIVE Concat(_)
Concat(ss) == IF ss = <<>> THEN <<>> ELSE Head(ss) \o Concat(Tail(ss))

RECURSIVE Pow2(_)
Pow2(n) == IF n = 0 THEN 1 ELSE 2 * Pow2(n - 1)

RECURSIVE SeqsUpTo(_, _)
SeqsUpTo(S, n) ==
    IF n = 0 THEN {<<>>}
    ELSE LET shorter == SeqsUpTo(S, n - 1)
         IN  shorter \cup {Append(s, x) : s \in shorter, x \in S}

\* bitwise AND of two naturals, bit by bit
RECURSIVE BitAnd(_, _)
BitAnd(a, b) ==
    IF a = 0 \/ b = 0 THEN 0
    ELSE (a % 2) * (b % 2) + 2 * BitAnd(a \div 2, b \div 2)

(***************************************************************************)
(* parse_data_pull_up_lengths: one iteration of `for &current in data`     *)
(***************************************************************************)
States == {"InitPullDown", "InitPullUp", "DataFirstPullDown", "DataPullUp", "DataPullDown"}

\* a plausible slip: the pull-down lengths are recorded as well
SegmentRecordingPullDowns(st, lens, len, current) ==
    LET n == len + 1
    IN  CASE st = "InitPullDown" ->
               [state |-> IF current = Low THEN "InitPullUp" ELSE st,
                lengths |-> lens, current_length |-> n]
          [] st = "InitPullUp" ->
               [state |-> IF current = High THEN "DataFirstPullDown" ELSE st,
                lengths |-> lens, current_length |-> n]
          [] st = "DataFirstPullDown" ->
               [state |-> IF current = Low THEN "DataPullUp" ELSE st,
                lengths |-> lens, current_length |-> n]
          [] st = "DataPullUp" ->
               IF current = High
               THEN [state |-> "DataPullDown", lengths |-> Append(lens, n),
                     current_length |-> 0]
               ELSE [state |-> st, lengths |-> lens, current_length |-> n]
          [] st = "DataPullDown" ->
               IF current = Low
               THEN [state |-> "DataPullUp", lengths |-> Append(lens, n),
                     current_length |-> n]
               ELSE [state |-> st, lengths |-> lens, current_length |-> n]

\* a plausible slip: the counter is not zeroed when the pull-up starts
SegmentWithoutReset(st, lens, len, current) ==
    LET n == len + 1
    IN  CASE st = "InitPullDown" ->
               [state |-> IF current = Low THEN "InitPullUp" ELSE st,
                lengths |-> lens, current_length |-> n]
          [] st = "InitPullUp" ->
               [state |-> IF current = High THEN "DataFirstPullDown" ELSE st,
                lengths |-> lens, current_length |-> n]
          [] st = "DataFirstPullDown" ->
               [state |-> IF current = Low THEN "DataPullUp" ELSE st,
                lengths |-> lens, current_length |-> n]
          [] st = "DataPullUp" ->
               [state |-> IF current = High THEN "DataPullDown" ELSE st,
                lengths |-> lens, current_length |-> n]
          [] st = "DataPullDown" ->
               IF current = Low
               THEN [state |-> "DataPullUp", lengths |-> Append(lens, n),
                     current_length |-> n]
               ELSE [state |-> st, lengths |-> lens, current_length |-> n]

\* a plausible slip: the handshake pull-up is taken for the first data bit
SegmentSkippingFirstPullDown(st, lens, len, current) ==
    LET n == len + 1
    IN  CASE st = "InitPullDown" ->
               [state |-> IF current = Low THEN "InitPullUp" ELSE st,
                lengths |-> lens, current_length |-> n]
          [] st = "InitPullUp" ->
               IF current = High
               THEN [state |-> "DataPullDown", lengths |-> lens,
                     current_length |-> 0]
               ELSE [state |-> st, lengths |-> lens, current_length |-> n]
          [] st = "DataFirstPullDown" ->
               [state |-> IF current = Low THEN "DataPullUp" ELSE st,
                lengths |-> lens, current_length |-> n]
          [] st = "DataPullUp" ->
               IF current = High
               THEN [state |-> "DataPullDown", lengths |-> lens,
                     current_length |-> 0]
               ELSE [state |-> st, lengths |-> lens, current_length |-> n]
          [] st = "DataPullDown" ->
               IF current = Low
               THEN [state |-> "DataPullUp", lengths |-> Append(lens, n),
                     current_length |-> n]
               ELSE [state |-> st, lengths |-> lens, current_length |-> n]

Segment(st, lens, len, current) ==
    LET n == len + 1                                  \* current_length += 1
    IN  CASE st = "InitPullDown" ->
               [state |-> IF current = Low THEN "InitPullUp" ELSE st,
                lengths |-> lens, current_length |-> n]
          [] st = "InitPullUp" ->
               [state |-> IF current = High THEN "DataFirstPullDown" ELSE st,
                lengths |-> lens, current_length |-> n]
          [] st = "DataFirstPullDown" ->
               [state |-> IF current = Low THEN "DataPullUp" ELSE st,
                lengths |-> lens, current_length |-> n]
          [] st = "DataPullUp" ->
               IF current = High
               THEN [state |-> "DataPullDown", lengths |-> lens,
                     current_length |-> 0]
               ELSE [state |-> st, lengths |-> lens, current_length |-> n]
          [] st = "DataPullDown" ->
               IF current = Low
               THEN [state |-> "DataPullUp", lengths |-> Append(lens, n),
                     current_length |-> n]
               ELSE [state |-> st, lengths |-> lens, current_length |-> n]

(***************************************************************************)
(* calculate_bits                                                          *)
(***************************************************************************)
\* the first loop: shortest_pull_up after the first n entries
RECURSIVE shortest_pull_up(_, _)
shortest_pull_up(D, n) ==
    IF n = 0 THEN SHORTEST_INIT
    ELSE LET s == shortest_pull_up(D, n - 1)
         IN  IF D[n] < s THEN D[n] ELSE s

\* the first loop: longest_pull_up after the first n entries
RECURSIVE longest_pull_up(_, _)
longest_pull_up(D, n) ==
    IF n = 0 THEN LONGEST_INIT
    ELSE LET l == longest_pull_up(D, n - 1)
         IN  IF D[n] > l THEN D[n] ELSE l

\* longest_pull_up - shortest_pull_up is below zero: a panic in a build with
\* overflow checks, a wrap modulo 2^64 without them
Underflows(D) == longest_pull_up(D, Len(D)) < shortest_pull_up(D, Len(D))

halfway(D) ==
    LET s == shortest_pull_up(D, Len(D))
        l == longest_pull_up(D, Len(D))
    IN  s + (l - s) \div 2

\* a plausible slip: a length equal to the midpoint counts as a 1
calculate_bits_at_or_above(D) == [i \in 1..Len(D) |-> D[i] >= halfway(D)]

\* the second loop, when the subtraction did not underflow
calculate_bits(D) == [i \in 1..Len(D) |-> D[i] > halfway(D)]

\* the second loop after a wrapped subtraction: halfway is at least 2^63,
\* above every length a capture can hold
calculate_bits_wrapped(D) == [i \in 1..Len(D) |-> FALSE]

(***************************************************************************)
(* bits_to_bytes                                                           *)
(***************************************************************************)
\* a plausible slip: the new bit is or-ed in above the old ones (LSB first)
RECURSIVE pack_lsb_first(_, _, _, _)
pack_lsb_first(bs, i, byte, out) ==
    IF i > Len(bs) THEN out
    ELSE LET b == byte + (IF bs[i] THEN Pow2((i - 1) % BYTE_BITS) ELSE 0)
         IN  IF i % BYTE_BITS = 0
             THEN pack_lsb_first(bs, i + 1, 0, Append(out, b))
             ELSE pack_lsb_first(bs, i + 1, b, out)

bits_to_bytes_lsb_first(bs) == pack_lsb_first(bs, 1, 0, <<>>)

\* the loop from its i-th bit (1-based) with the running byte and the output
RECURSIVE pack(_, _, _, _)
pack(bs, i, byte, out) ==
    IF i > Len(bs) THEN out
    ELSE LET shifted == byte * 2                          \* byte << 1
             b == IF bs[i] THEN shifted + 1 ELSE shifted  \* byte | 1, byte | 0
         IN  IF i % BYTE_BITS = 0                         \* (i + 1) % 8 == 0, 0-based i
             THEN pack(bs, i + 1, 0, Append(out, b))
             ELSE pack(bs, i + 1, b, out)

bits_to_bytes(bs) == pack(bs, 1, 0, <<>>)

(***************************************************************************)
(* calculate_checksum and the comparison of read_sensor_data               *)
(***************************************************************************)
\* a plausible slip: & binds tighter than +, so only bytes[3] is masked
calculate_checksum_unmasked_sum(bs) ==
    bs[1] + bs[2] + bs[3] + BitAnd(bs[4], CHECKSUM_MASK)

\* bytes[0] + bytes[1] + bytes[2] + bytes[3] & 255: + binds tighter than &
calculate_checksum(bs) == BitAnd(bs[1] + bs[2] + bs[3] + bs[4], CHECKSUM_MASK)

\* a plausible slip: the comparison is inverted
checksum_mismatch_inverted(bs, sum) == bs[5] = sum

\* if bytes[4] != checksum
checksum_mismatch(bs, sum) == bs[5] # sum

(***************************************************************************)
(* The length check of read_sensor_data                                    *)
(***************************************************************************)
\* a plausible slip: only short lists are rejected
bit_count_mismatch_short_only(lens) == Len(lens) < FRAME_BITS

\* a plausible slip: only long lists are rejected
bit_count_mismatch_long_only(lens) == Len(lens) > FRAME_BITS

\* a plausible slip: only a non-empty list of the wrong length is refused
bit_count_mismatch_nonempty_only(lens) == Len(lens) # FRAME_BITS /\ Len(lens) > 0

\* if pull_up_lengths.len() != 40
bit_count_mismatch(lens) == Len(lens) # FRAME_BITS

(***************************************************************************)
(* Results                                                                 *)
(***************************************************************************)
NoResult == [kind |-> "none"]
Err(e) == [kind |-> "Err", error |-> e]
\* a thread panic (index out of bounds, arithmetic overflow): no Result at all
Panic == [kind |-> "panic"]
\* a plausible slip: the two byte pairs are taken the other way round
OkPairsSwapped(bs) == [kind |-> "Ok",
                       humidity10 |-> 10 * bs[3] + bs[4],
                       temperature10 |-> 10 * bs[1] + bs[2]]

\* humidity and temperature are kept in tenths: bytes[0] + bytes[1] / 10.0
\* (for every pair of bytes the f64 sum is the double nearest to that value)
Ok(bs) == [kind |-> "Ok",
           humidity10 |-> 10 * bs[1] + bs[2],
           temperature10 |-> 10 * bs[3] + bs[4]]

(***************************************************************************)
(* The line: level sequences a capture can return                          *)
(***************************************************************************)
\* the five bytes a sensor sends (or that arrive corrupted)
FrameBytes ==
    { <<55, 2, 24, 8, 89>>,        \* a valid frame
      <<55, 2, 24, 8, 0>>,         \* its checksum byte lost
      <<55, 2, 24, 8, 81>>,        \* its checksum byte short of bytes[3]
      <<60, 0, 25, 5, 90>>,        \* a valid frame
      <<170, 51, 0, 0, 221>>,      \* 0xAA, 0x33, valid
      <<255, 255, 255, 255, 252>>, \* valid, the sum wraps past 255
      <<255, 255, 255, 3, 0>>,     \* the sum is 768: 0 modulo 256
      <<0, 0, 0, 0, 0>> }          \* forty equal pulses

\* the bits of a byte as the sensor sends them, most significant first
BitsOfByte(b) == [j \in 1..BYTE_BITS |-> (b \div Pow2(BYTE_BITS - j)) % 2 = 1]
BitsOfBytes(bs) == Concat([k \in 1..Len(bs) |-> BitsOfByte(bs[k])])

\* (short, long) widths of the pull-up pulse of a 0 and of a 1, in samples
PulseWidths == {w \in (1..MaxPulse) \X (1..MaxPulse) : w[1] < w[2]}
LeadRuns == {0, 1}
TailRuns == {0, 1}

PulseTrain(bs, w) ==
    Concat([i \in 1..Len(bs) |-> Rep(High, IF bs[i] THEN w[2] ELSE w[1]) \o <<Low>>])

\* line high, response low, response high, first low, the pulses, line high
FrameCapture(lead, bs, w, cut, extra, tail) ==
    Rep(High, lead) \o <<Low, High, Low>>
      \o PulseTrain(SubSeq(BitsOfBytes(bs), 1, FRAME_BITS - cut) \o Rep(FALSE, extra), w)
      \o Rep(High, tail)

FrameCaptures ==
    { FrameCapture(lead, bs, w, cut, extra, tail) :
        lead \in LeadRuns, bs \in FrameBytes, w \in PulseWidths,
        cut \in 0..MaxCut, extra \in 0..MaxExtra, tail \in TailRuns }

\* every level sequence of 1..MaxNoise samples
NoiseCaptures == SeqsUpTo(Level, MaxNoise) \ {<<>>}

\* a complete frame with one sample misread (a glitch on the line)
Flip(l) == IF l = Low THEN High ELSE Low
GlitchCaptures ==
    { [f EXCEPT ![i] = Flip(f[i])] :
        i \in 1..(4 + 2 * FRAME_BITS),
        f \in {FrameCapture(0, bs, <<1, 2>>, 0, 0, 1) : bs \in FrameBytes} }

Captures == NoiseCaptures \cup FrameCaptures \cup GlitchCaptures

(***************************************************************************)
(* State                                                                   *)
(***************************************************************************)
VARIABLES
    pin_mode, pin_level, pin_bias,      \* dht_pin: IoPin
    pc,                                 \* the statement about to run
    data,                               \* Vec<Level> of collect_input / read_sensor_data
    last, elapsed, blocked,             \* collect_input: last, start_time.elapsed(), time since entry
    state, lengths, current_length,     \* parse_data_pull_up_lengths
    next,                               \* samples of data the for loop has consumed
    pull_downs,                         \* history: entries into DataPullDown
    pull_up_lengths, bits, bytes, checksum,   \* read_sensor_data
    result,                             \* what read_sensor_data returned
    returned                            \* history: <<data, result>> of the calls that returned

pinVars == <<pin_mode, pin_level, pin_bias>>
capVars == <<last, elapsed, blocked>>
parseVars == <<state, lengths, current_length, next, pull_downs>>
decodeVars == <<pull_up_lengths, bits, bytes, checksum>>
vars == <<pinVars, pc, data, capVars, parseVars, decodeVars, result, returned>>

\* locals before their first assignment
Unset ==
    /\ data = <<>>
    /\ last = Low /\ elapsed = 0 /\ blocked = 0
    /\ state = "InitPullDown" /\ lengths = <<>> /\ current_length = 0
    /\ next = 0 /\ pull_downs = 0
    /\ pull_up_lengths = <<>> /\ bits = <<>> /\ bytes = <<>> /\ checksum = -1
    /\ result = NoResult
    /\ returned = {}

\* DHT11Controller::new: the pin is taken as an output
Init ==
    /\ pin_mode = "Output" /\ pin_level \in Level /\ pin_bias = "Off"
    /\ pc = "set_output"
    /\ Unset

(***************************************************************************)
(* read_sensor_data                                                        *)
(***************************************************************************)
\* a plausible slip: the pin is taken to be an output still
SetModeOutputSkipped ==
    /\ pc = "set_output"
    /\ pc' = "set_high"
    /\ UNCHANGED <<pinVars, data, capVars, parseVars, decodeVars, result, returned>>

\* self.dht_pin.set_mode(Mode::Output)
SetModeOutput ==
    /\ pc = "set_output"
    /\ pin_mode' = "Output"
    /\ pc' = "set_high"
    /\ UNCHANGED <<pin_level, pin_bias, data, capVars, parseVars, decodeVars, result, returned>>

\* self.dht_pin.set_high(); sleep 50 ms
SetHigh ==
    /\ pc = "set_high"
    /\ pin_level' = High
    /\ pc' = "set_low"
    /\ UNCHANGED <<pin_mode, pin_bias, data, capVars, parseVars, decodeVars, result, returned>>

\* self.dht_pin.set_low(); sleep 20 ms
SetLow ==
    /\ pc = "set_low"
    /\ pin_level' = Low
    /\ pc' = "set_input"
    /\ UNCHANGED <<pin_mode, pin_bias, data, capVars, parseVars, decodeVars, result, returned>>

\* self.dht_pin.set_mode(Mode::Input)
SetModeInput ==
    /\ pc = "set_input"
    /\ pin_mode' = "Input"
    /\ pc' = "set_bias"
    /\ UNCHANGED <<pin_level, pin_bias, data, capVars, parseVars, decodeVars, result, returned>>

\* self.dht_pin.set_bias(Bias::PullUp)
SetBias ==
    /\ pc = "set_bias"
    /\ pin_bias' = "PullUp"
    /\ pc' = "collect"
    /\ UNCHANGED <<pin_mode, pin_level, data, capVars, parseVars, decodeVars, result, returned>>

\* let data = self.collect_input(): whatever the capture returned
CollectInput ==
    /\ pc = "collect"
    /\ data' \in Captures
    /\ pc' = "parse"
    /\ UNCHANGED <<pinVars, capVars, parseVars, decodeVars, result, returned>>

\* a plausible slip: the duration list outlives the call
ParseEnterKeepingLengths ==
    /\ pc = "parse"
    /\ state' = "InitPullDown"
    /\ lengths' = lengths
    /\ current_length' = 0
    /\ next' = 0
    /\ pull_downs' = 0
    /\ pc' = "parse_loop"
    /\ UNCHANGED <<pinVars, data, capVars, decodeVars, result, returned>>

\* parse_data_pull_up_lengths, its locals
ParseEnter ==
    /\ pc = "parse"
    /\ state' = "InitPullDown"
    /\ lengths' = <<>>
    /\ current_length' = 0
    /\ next' = 0
    /\ pull_downs' = 0
    /\ pc' = "parse_loop"
    /\ UNCHANGED <<pinVars, data, capVars, decodeVars, result, returned>>

\* one iteration of for &current in data
ParseStep ==
    /\ pc = "parse_loop"
    /\ next < Len(data)
    /\ LET r == Segment(state, lengths, current_length, data[next + 1])
       IN  /\ state' = r.state
           /\ lengths' = r.lengths
           /\ current_length' = r.current_length
           /\ pull_downs' = IF r.state = "DataPullDown" /\ state # "DataPullDown"
                            THEN pull_downs + 1 ELSE pull_downs
    /\ next' = next + 1
    /\ UNCHANGED <<pinVars, pc, data, capVars, decodeVars, result, returned>>

\* the loop is over: lengths is returned into pull_up_lengths
ParseReturn ==
    /\ pc = "parse_loop"
    /\ next = Len(data)
    /\ pull_up_lengths' = lengths
    /\ pc' = "check_len"
    /\ UNCHANGED <<pinVars, data, capVars, parseVars, bits, bytes, checksum, result, returned>>

\* if pull_up_lengths.len() != 40 { return Err(DHT11Error::MissingData) }
CheckLength ==
    /\ pc = "check_len"
    /\ IF bit_count_mismatch(pull_up_lengths)
       THEN result' = Err("MissingData") /\ pc' = "done"
       ELSE result' = result /\ pc' = "bits"
    /\ UNCHANGED <<pinVars, data, capVars, parseVars, decodeVars, returned>>

\* let bits = self.calculate_bits(&pull_up_lengths)
CalculateBits ==
    /\ pc = "bits"
    /\ \E overflow_checks \in BOOLEAN :
         IF Underflows(pull_up_lengths) /\ overflow_checks
         THEN /\ result' = Panic /\ pc' = "done" /\ bits' = bits
         ELSE /\ bits' = IF Underflows(pull_up_lengths)
                         THEN calculate_bits_wrapped(pull_up_lengths)
                         ELSE calculate_bits(pull_up_lengths)
              /\ pc' = "bytes"
              /\ result' = result
    /\ UNCHANGED <<pinVars, data, capVars, parseVars, pull_up_lengths, bytes, checksum, returned>>

\* let bytes = self.bits_to_bytes(&bits)
BitsToBytes ==
    /\ pc = "bytes"
    /\ bytes' = bits_to_bytes(bits)
    /\ pc' = "checksum"
    /\ UNCHANGED <<pinVars, data, capVars, parseVars, pull_up_lengths, bits, checksum, result, returned>>

\* let checksum = self.calculate_checksum(&bytes);
\* if bytes[4] != checksum { return Err(DHT11Error::InvalidChecksum) }
ValidateChecksum ==
    /\ pc = "checksum"
    /\ IF Len(bytes) < 5                       \* bytes[3] or bytes[4] out of bounds
       THEN /\ result' = Panic /\ pc' = "done"
            /\ checksum' = IF Len(bytes) < 4 THEN checksum ELSE calculate_checksum(bytes)
       ELSE /\ checksum' = calculate_checksum(bytes)
            /\ IF checksum_mismatch(bytes, calculate_checksum(bytes))
               THEN result' = Err("InvalidChecksum") /\ pc' = "done"
               ELSE result' = result /\ pc' = "ok"
    /\ UNCHANGED <<pinVars, data, capVars, parseVars, pull_up_lengths, bits, bytes, returned>>

\* Ok(DHT11Result { temperature, humidity })
ReturnOk ==
    /\ pc = "ok"
    /\ result' = Ok(bytes)
    /\ pc' = "done"
    /\ UNCHANGED <<pinVars, data, capVars, parseVars, decodeVars, returned>>

Drive == SetModeOutput \/ SetHigh \/ SetLow \/ SetModeInput \/ SetBias
Parse == ParseEnter \/ ParseStep \/ ParseReturn
Decode == CheckLength \/ CalculateBits \/ BitsToBytes \/ ValidateChecksum \/ ReturnOk

Next == Drive \/ CollectInput \/ Parse \/ Decode

Spec == Init /\ [][Next]_vars

(***************************************************************************)
(* Claims about read_sensor_data (Spec)                                    *)
(***************************************************************************)
AfterLengthCheck == pc \in {"bits", "bytes", "checksum", "ok", "done"}
Sum4(bs) == bs[1] + bs[2] + bs[3] + bs[4]

\* C1: read_sensor_data returns MissingData exactly when the duration list
\* does not have 40 entries, and then no Reading is produced and neither
\* calculate_bits, bits_to_bytes nor calculate_checksum has run (bits, bytes
\* and checksum are still unassigned).
C1_MissingDataIffNot40 ==
    /\ AfterLengthCheck =>
         ((result = Err("MissingData")) <=> (Len(pull_up_lengths) # FRAME_BITS))
    /\ result = Err("MissingData") =>
         pc = "done" /\ bits = <<>> /\ bytes = <<>> /\ checksum = -1

\* C1 witness: thirty-nine complete pulses, then the capture ended
C1_Witness ==
    /\ pc = "done"
    /\ Len(pull_up_lengths) = FRAME_BITS - 1
    /\ result = Err("MissingData")

\* C2: a Reading is returned only for 40 entries whose packed bytes satisfy
\* (bytes[0] + bytes[1] + bytes[2] + bytes[3]) mod 256 = bytes[4]; with 40
\* entries and that equality failing the result is InvalidChecksum.
C2_OkOnlyIfChecksumHolds ==
    /\ result.kind = "Ok" =>
         /\ Len(pull_up_lengths) = FRAME_BITS
         /\ Len(bytes) = 5
         /\ Sum4(bytes) % 256 = bytes[5]
    /\ (pc = "done" /\ Len(pull_up_lengths) = FRAME_BITS) =>
         /\ Len(bytes) = 5
         /\ Sum4(bytes) % 256 # bytes[5] => result = Err("InvalidChecksum")

\* C2 witness: bytes [55, 2, 24, 8, 0] are refused
C2_Witness ==
    /\ pc = "done"
    /\ bytes = <<55, 2, 24, 8, 0>>
    /\ result = Err("InvalidChecksum")

\* C4: the decode pass ends in Success, MissingData or InvalidChecksum and
\* never in a panic: bytes[4] is in range when it is read and
\* longest - shortest does not underflow when it is computed.
C4_NoAbort ==
    /\ result # Panic
    /\ pc = "done" =>
         \/ result.kind = "Ok"
         \/ result \in {Err("MissingData"), Err("InvalidChecksum")}
    /\ pc = "checksum" => Len(bytes) >= 5
    /\ pc = "bits" => ~Underflows(pull_up_lengths)

\* C4 witness: a noise capture without a single pulse was decoded
C4_Witness ==
    /\ pc = "done"
    /\ data \in NoiseCaptures
    /\ pull_up_lengths = <<>>
    /\ result.kind = "Err"

\* C9: the duration list never has more entries than DataPullDown was
\* entered, and a parse that entered DataPullDown fewer than 40 times ends
\* in MissingData.
C9_FewPullDownsMissingData ==
    /\ Len(lengths) <= pull_downs
    /\ (pc \notin {"set_output", "set_high", "set_low", "set_input", "set_bias",
                   "collect", "parse", "parse_loop"} /\ pull_downs < FRAME_BITS) =>
         Len(pull_up_lengths) < FRAME_BITS
    /\ (pc = "done" /\ pull_downs < FRAME_BITS) => result = Err("MissingData")

\* C9 witness: DataPullDown was entered 39 times
C9_Witness ==
    /\ pc = "done"
    /\ pull_downs = FRAME_BITS - 1
    /\ result = Err("MissingData")

(***************************************************************************)
(* collect_input against a free line (CaptureSpec)                         *)
(***************************************************************************)
\* milliseconds that pass between two readings of the clock: less than one,
\* half the timeout, or a stall longer than the timeout
Ticks == {0, TIMEOUT_DURATION \div 2, TIMEOUT_DURATION + 1}

Min(a, b) == IF a < b THEN a ELSE b

\* a plausible slip: the loop ends as soon as the timeout is reached
timed_out_at_limit(ms) == ms >= TIMEOUT_DURATION

\* start_time.elapsed().as_millis() > TIMEOUT_DURATION
timed_out(ms) == ms > TIMEOUT_DURATION

\* read_sensor_data has switched the pin to input with the pull-up bias
InitCapture ==
    /\ pin_mode = "Input" /\ pin_level = Low /\ pin_bias = "PullUp"
    /\ pc = "collect"
    /\ Unset

\* let mut last = Level::Low; let mut data = vec![]; let mut start_time = Instant::now()
CollectEnter ==
    /\ pc = "collect"
    /\ last' = Low
    /\ data' = <<>>
    /\ elapsed' = 0
    /\ blocked' = 0
    /\ pc' = "poll"
    /\ UNCHANGED <<pinVars, parseVars, decodeVars, result, returned>>

\* a plausible slip: last is updated but start_time is not taken again
PollWithoutReset(current, d1, d2) ==
    /\ pc = "poll"
    /\ data' = IF Len(data) < MaxSamples THEN Append(data, current) ELSE data
    /\ last' = current
    /\ elapsed' = elapsed + d1 + d2
    /\ blocked' = Min(blocked + d1 + d2, MaxClock)
    /\ pc' = IF timed_out(elapsed') THEN "collected" ELSE "poll"
    /\ UNCHANGED <<pinVars, parseVars, decodeVars, result, returned>>

\* one iteration of the loop: the pin reads `current`; d1 ms pass up to the
\* reset of start_time, d2 ms from there to the reading of elapsed().
\* data keeps the first MaxSamples samples, blocked saturates at MaxClock.
Poll(current, d1, d2) ==
    /\ pc = "poll"
    /\ data' = IF Len(data) < MaxSamples THEN Append(data, current) ELSE data
    /\ last' = current                                  \* if last != current { last = current
    /\ elapsed' = IF last # current THEN d2             \*   start_time = Instant::now() }
                  ELSE elapsed + d1 + d2
    /\ blocked' = Min(blocked + d1 + d2, MaxClock)
    /\ pc' = IF timed_out(elapsed') THEN "collected" ELSE "poll"
    /\ UNCHANGED <<pinVars, parseVars, decodeVars, result, returned>>

PollLine == \E current \in Level, d1 \in Ticks, d2 \in Ticks : Poll(current, d1, d2)

\* an iteration during which the clock advances
TimePasses ==
    \E current \in Level, d1 \in Ticks, d2 \in Ticks : d1 + d2 > 0 /\ Poll(current, d1, d2)

NextCapture == CollectEnter \/ PollLine

CaptureSpec == InitCapture /\ [][NextCapture]_vars

\* the thread keeps running and the monotonic clock keeps advancing
FairCaptureSpec == CaptureSpec /\ WF_vars(NextCapture) /\ WF_vars(TimePasses)

\* C5: every call of read_sensor_data eventually reaches a terminal outcome,
\* whatever the line does during the capture: in particular collect_input
\* eventually returns.
C5_CaptureTerminates == <>(pc = "collected")

DurationSamples == {1, 10, 28, 700, 1000, 1001, 2000, 2800}

\* forty entries alternating a short and a long pulse, at scale k
Alternating(k) == [i \in 1..FRAME_BITS |-> IF i % 2 = 1 THEN 10 * k ELSE 28 * k]

DurationLists ==
    SeqsUpTo(DurationSamples, MaxDurations)
      \cup {Alternating(k) : k \in (1..MaxScale) \cup {101}}

\* read_sensor_data is about to call calculate_bits(&pull_up_lengths)
InitBits ==
    /\ pin_mode = "Input" /\ pin_level = Low /\ pin_bias = "PullUp"
    /\ pc = "bits"
    /\ data = <<>>
    /\ last = Low /\ elapsed = 0 /\ blocked = 0
    /\ state = "InitPullDown" /\ lengths = <<>> /\ current_length = 0
    /\ next = 0 /\ pull_downs = 0
    /\ pull_up_lengths \in DurationLists
    /\ bits = <<>> /\ bytes = <<>> /\ checksum = -1
    /\ result = NoResult
    /\ returned = {}

NextBits == CalculateBits

BitsSpec == InitBits /\ [][NextBits]_vars

Elements(D) == {D[i] : i \in 1..Len(D)}
MinOf(D) == CHOOSE m \in Elements(D) : \A x \in Elements(D) : m <= x
MaxOf(D) == CHOOSE m \in Elements(D) : \A x \in Elements(D) : m >= x
Scaled(D, k) == [i \in 1..Len(D) |-> k * D[i]]

\* C7: for every non-empty duration list D, of any magnitude, calculate_bits
\* returns Len(D) bits, the i-th true exactly when
\* D[i] > min(D) + floor((max(D) - min(D)) / 2).
C7_BitsAboveMidpoint ==
    (pc = "bytes" /\ pull_up_lengths # <<>>) =>
        /\ Len(bits) = Len(pull_up_lengths)
        /\ \A i \in 1..Len(bits) :
             bits[i] <=> (pull_up_lengths[i] >
                            MinOf(pull_up_lengths)
                              + (MaxOf(pull_up_lengths) - MinOf(pull_up_lengths)) \div 2)

\* C8: for every non-empty duration list D and every factor k >= 1,
\* calculate_bits of D scaled by k is the bit pattern of calculate_bits of D.
C8_ScaleInvariant ==
    (pc = "bytes" /\ pull_up_lengths # <<>>) =>
        \A k \in 1..MaxScale : calculate_bits(Scaled(pull_up_lengths, k)) = bits

(***************************************************************************)
(* bits_to_bytes on its own (PackSpec)                                     *)
(***************************************************************************)
ByteSamples == {0, 1, 51, 170, 255}

BitPatterns ==
    {BitsOfBytes(<<a, b, c, d, e>>) :
        a \in ByteSamples, b \in ByteSamples, c \in ByteSamples,
        d \in ByteSamples, e \in ByteSamples}

\* read_sensor_data is about to call bits_to_bytes(&bits)
InitPack ==
    /\ pin_mode = "Input" /\ pin_level = Low /\ pin_bias = "PullUp"
    /\ pc = "bytes"
    /\ data = <<>>
    /\ last = Low /\ elapsed = 0 /\ blocked = 0
    /\ state = "InitPullDown" /\ lengths = <<>> /\ current_length = 0
    /\ next = 0 /\ pull_downs = 0
    /\ pull_up_lengths = <<>>
    /\ bits \in BitPatterns
    /\ bytes = <<>> /\ checksum = -1
    /\ result = NoResult
    /\ returned = {}

NextPack == BitsToBytes

PackSpec == InitPack /\ [][NextPack]_vars

\* the sum over j in 0..n of bits[8k + j] * 2^(7 - j), bits numbered from 0
RECURSIVE WeightedSum(_, _, _)
WeightedSum(bs, k, n) ==
    IF n < 0 THEN 0
    ELSE (IF bs[BYTE_BITS * k + n + 1] THEN Pow2(BYTE_BITS - 1 - n) ELSE 0)
           + WeightedSum(bs, k, n - 1)

\* C10: bits_to_bytes turns 40 bits into exactly 5 bytes, each in 0..255,
\* byte k being the sum over j in 0..7 of bits[8k + j] * 2^(7 - j); bits
\* 1,0,1,0,1,0,1,0, 0,0,1,1,0,0,1,1 pack to 0xAA, 0x33.
C10_PacksMsbFirst ==
    (pc = "checksum" /\ Len(bits) = FRAME_BITS) =>
        /\ Len(bytes) = 5
        /\ \A k \in 0..4 :
             /\ bytes[k + 1] \in 0..255
             /\ bytes[k + 1] = WeightedSum(bits, k, BYTE_BITS - 1)
        /\ SubSeq(bits, 1, 16) = <<TRUE, FALSE, TRUE, FALSE, TRUE, FALSE, TRUE, FALSE,
                                   FALSE, FALSE, TRUE, TRUE, FALSE, FALSE, TRUE, TRUE>>
             => bytes[1] = 170 /\ bytes[2] = 51

\* C10 witness: a sequence starting 1,0,1,0,1,0,1,0, 0,0,1,1,0,0,1,1 was packed
C10_Witness ==
    /\ pc = "checksum"
    /\ Len(bits) = FRAME_BITS
    /\ bits[1] /\ ~bits[2] /\ bits[7] /\ ~bits[8] /\ ~bits[9] /\ bits[11] /\ bits[16]
    /\ bytes[1] = 170 /\ bytes[2] = 51

(***************************************************************************)
(* The checksum validation on its own (ChecksumSpec)                       *)
(***************************************************************************)
DataByteSamples == {0, 1, 85, 128, 255}

\* byte b with bit k flipped
FlipBit(b, k) == IF (b \div Pow2(k)) % 2 = 1 THEN b - Pow2(k) ELSE b + Pow2(k)
FlipAt(bs, p, k) == [bs EXCEPT ![p] = FlipBit(bs[p], k)]

\* four data bytes and the fifth byte that matches them
GoodFrames ==
    {<<a, b, c, d, (a + b + c + d) % 256>> :
        a \in DataByteSamples, b \in DataByteSamples,
        c \in DataByteSamples, d \in DataByteSamples}

\* a good frame with one bit of one data byte flipped
FlippedFrames == {FlipAt(f, p, k) : f \in GoodFrames, p \in 1..4, k \in 0..(BYTE_BITS - 1)}

\* read_sensor_data is about to call calculate_checksum(&bytes)
InitChecksum ==
    /\ pin_mode = "Input" /\ pin_level = Low /\ pin_bias = "PullUp"
    /\ pc = "checksum"
    /\ data = <<>>
    /\ last = Low /\ elapsed = 0 /\ blocked = 0
    /\ state = "InitPullDown" /\ lengths = <<>> /\ current_length = 0
    /\ next = 0 /\ pull_downs = 0
    /\ pull_up_lengths = <<>> /\ bits = <<>>
    /\ bytes \in GoodFrames \cup FlippedFrames
    /\ checksum = -1
    /\ result = NoResult
    /\ returned = {}

NextChecksum == ValidateChecksum \/ ReturnOk

ChecksumSpec == InitChecksum /\ [][NextChecksum]_vars

\* C3: a frame whose fifth byte is (b0 + b1 + b2 + b3) & 0xFF passes the
\* validation; a frame that is one flipped data bit away from such a frame
\* (same fifth byte) fails it with InvalidChecksum.
C3_ChecksumRoundTrip ==
    pc \in {"ok", "done"} =>
        /\ bytes[5] = Sum4(bytes) % 256 => (pc = "ok" \/ result.kind = "Ok")
        /\ \A p \in 1..4, k \in 0..(BYTE_BITS - 1) :
             bytes[5] = Sum4(FlipAt(bytes, p, k)) % 256
               => (pc = "done" /\ result = Err("InvalidChecksum"))

\* C3 witness: a frame with one data bit flipped was refused
C3_Witness ==
    /\ pc = "done"
    /\ result = Err("InvalidChecksum")
    /\ \E p \in 1..4, k \in 0..(BYTE_BITS - 1) :
         bytes[5] = Sum4(FlipAt(bytes, p, k)) % 256

(***************************************************************************)
(* Claims about the Reading (Spec)                                         *)
(***************************************************************************)
\* C11: on a checksum-valid frame the Reading is, in tenths,
\* 10 * humidity = 10 * bytes[0] + bytes[1] and
\* 10 * temperature = 10 * bytes[2] + bytes[3]; a sensor sending
\* [60, 0, 25, 5, 90] is read as humidity 60.0 and temperature 25.5.
C11_ReadingFromBytes ==
    /\ (pc = "done" /\ Len(pull_up_lengths) = FRAME_BITS /\ Len(bytes) = 5
          /\ Sum4(bytes) % 256 = bytes[5]) =>
         /\ result.kind = "Ok"
         /\ result.humidity10 = 10 * bytes[1] + bytes[2]
         /\ result.temperature10 = 10 * bytes[3] + bytes[4]
    /\ (pc = "done"
          /\ \E lead \in LeadRuns, w \in PulseWidths, tail \in TailRuns :
               data = FrameCapture(lead, <<60, 0, 25, 5, 90>>, w, 0, 0, tail)) =>
         result = [kind |-> "Ok", humidity10 |-> 600, temperature10 |-> 255]

\* C11 witness: the frame [60, 0, 25, 5, 90] was decoded
C11_Witness ==
    /\ pc = "done"
    /\ bytes = <<60, 0, 25, 5, 90>>
    /\ result.kind = "Ok"
    /\ result.humidity10 = 600 /\ result.temperature10 = 255

(***************************************************************************)
(* Claims about the pulse segmenter (Spec)                                 *)
(***************************************************************************)
\* the last sample of the run that starts at sample i
RunEnd(s, i) ==
    CHOOSE j \in i..Len(s) :
        /\ \A k \in i..j : s[k] = s[i]
        /\ j = Len(s) \/ s[j + 1] # s[i]

\* the maximal runs of a level sequence from sample i on, each as <<level, samples>>
RECURSIVE RunsFrom(_, _)
RunsFrom(s, i) ==
    IF i > Len(s) THEN <<>>
    ELSE <<<<s[i], RunEnd(s, i) - i + 1>>>> \o RunsFrom(s, RunEnd(s, i) + 1)

Runs(s) == RunsFrom(s, 1)

\* the runs without a leading High run: L1, H1, L2, H2, L3, H3, ...
NamedRuns(s) ==
    LET r == Runs(s)
    IN  IF r # <<>> /\ r[1][1] = High THEN Tail(r) ELSE r

\* |H2|, |H3|, ... of the High runs that a Low run follows
PulseReference(s) ==
    LET r == NamedRuns(s)
        n == IF Len(r) >= 5 THEN (Len(r) - 1) \div 2 - 1 ELSE 0
    IN  [j \in 1..n |-> r[2 * j + 2][2]]

\* C12: parse_data_pull_up_lengths returns, in order, the sample counts of
\* the High runs H2, H3, ... that are followed by a Low sample, and nothing
\* else; every entry is at least 1.
C12_LengthsAreHighRuns ==
    pc = "check_len" =>
        /\ pull_up_lengths = PulseReference(data)
        /\ \A i \in 1..Len(pull_up_lengths) : pull_up_lengths[i] >= 1

\* C12 witness: a capture starting and ending with a High run, holding
\* pulses of different widths, was segmented
C12_Witness ==
    /\ pc = "check_len"
    /\ data[1] = High /\ data[Len(data)] = High
    /\ Len(pull_up_lengths) >= 2
    /\ \E i, j \in 1..Len(pull_up_lengths) : pull_up_lengths[i] < pull_up_lengths[j]

\* the level on which each state is left, and the state it is left for
Trigger(st) ==
    CASE st = "InitPullDown" -> Low
      [] st = "InitPullUp" -> High
      [] st = "DataFirstPullDown" -> Low
      [] st = "DataPullUp" -> High
      [] st = "DataPullDown" -> Low

Successor(st) ==
    CASE st = "InitPullDown" -> "InitPullUp"
      [] st = "InitPullUp" -> "DataFirstPullDown"
      [] st = "DataFirstPullDown" -> "DataPullUp"
      [] st = "DataPullUp" -> "DataPullDown"
      [] st = "DataPullDown" -> "DataPullUp"

InitStates == {"InitPullDown", "InitPullUp"}

\* C13: the segmenter's state moves only along InitPullDown -> InitPullUp ->
\* DataFirstPullDown -> DataPullUp <-> DataPullDown: at each sample it is
\* left exactly on the level designated for it and for its successor, an
\* Init state is never re-entered, and the duration list grows, by one
\* entry, only on the step DataPullDown -> DataPullUp.
C13_StateMovesAlongChain ==
    [][ /\ state' # state =>
             /\ pc = "parse_loop" /\ next' = next + 1
             /\ data[next + 1] = Trigger(state)
             /\ state' = Successor(state)
        /\ (pc = "parse_loop" /\ next' = next + 1 /\ data[next + 1] = Trigger(state)) =>
             state' # state
        /\ state \notin InitStates => state' \notin InitStates
        /\ lengths' # lengths =>
             /\ state = "DataPullDown" /\ state' = "DataPullUp"
             /\ Len(lengths') = Len(lengths) + 1
             /\ SubSeq(lengths', 1, Len(lengths)) = lengths
      ]_vars

\* C13 witness: the segmenter went round the DataPullUp <-> DataPullDown
\* cycle and is back in DataPullUp with entries recorded
C13_Witness ==
    /\ pc = "parse_loop"
    /\ state = "DataPullUp"
    /\ Len(lengths) >= 2
    /\ pull_downs >= 2

(***************************************************************************)
(* Claims about the order of the decode steps (Spec)                       *)
(***************************************************************************)
\* C14: calculate_bits is never invoked on an empty duration list: whenever
\* it is about to run it receives exactly 40 entries, so its subtraction
\* cannot underflow, and what it returned has 40 bits.
C14_BitsOnlyOnFortyEntries ==
    /\ pc = "bits" =>
         /\ pull_up_lengths # <<>>
         /\ Len(pull_up_lengths) = FRAME_BITS
         /\ ~Underflows(pull_up_lengths)
    /\ pc \in {"bytes", "checksum", "ok"} =>
         /\ Len(pull_up_lengths) = FRAME_BITS
         /\ Len(bits) = FRAME_BITS

\* C14 witness: calculate_bits is about to run on 40 entries
C14_Witness ==
    /\ pc = "bits"
    /\ Len(pull_up_lengths) = FRAME_BITS
    /\ result = NoResult

(***************************************************************************)
(* Claims about the samples of a capture (CaptureSpec)                     *)
(***************************************************************************)
\* the level the newest sample is compared with
Previous(samples) == IF samples = <<>> THEN Low ELSE samples[Len(samples)]

\* what one iteration of the loop does, while data still holds every sample
SampleStep ==
    (pc = "poll" /\ Len(data) < MaxSamples) =>
        /\ Len(data') = Len(data) + 1
        /\ SubSeq(data', 1, Len(data)) = data
        /\ last' = data'[Len(data')]
        /\ data'[Len(data')] # Previous(data) =>
              /\ elapsed' <= TIMEOUT_DURATION + 1
              /\ blocked' < MaxClock => elapsed' <= blocked' - blocked
        /\ data'[Len(data')] = Previous(data) =>
              /\ elapsed' >= elapsed
              /\ blocked' < MaxClock => elapsed' = elapsed + (blocked' - blocked)
        /\ pc' = "collected" <=> elapsed' > TIMEOUT_DURATION

\* C15: collect_input appends every sample, in order, so what it returns has
\* at least one sample; it restarts its clock exactly when a sample differs
\* from the level seen before it (Low before the first sample); and it
\* returns only when more than 200 ms have passed since the last restart,
\* so the samples since the last change, all of one level, span them.
C15_SamplesAndChangeClock ==
    /\ [](pc = "collected" => Len(data) >= 1 /\ elapsed > TIMEOUT_DURATION)
    /\ [](pc = "poll" => elapsed <= TIMEOUT_DURATION)
    /\ [](Len(data) < MaxSamples => last = Previous(data))
    /\ [][SampleStep]_vars

\* C15 witness: the first two samples were changes, the line then stayed
\* Low, and the capture returned
C15_Witness ==
    /\ pc = "collected"
    /\ Len(data) = 3
    /\ data = <<High, Low, Low>>
    /\ elapsed > TIMEOUT_DURATION

(***************************************************************************)
(* Serialized calls of read_sensor_data on one controller (ReadsSpec)      *)
(***************************************************************************)
\* what the line does during the captures of the calls: noise, a frame,
\* the frame with its checksum byte lost, another frame, a frame cut short
ReadCaptures ==
    { <<High, Low, High>>,
      FrameCapture(0, <<55, 2, 24, 8, 89>>, <<1, 2>>, 0, 0, 1),
      FrameCapture(0, <<55, 2, 24, 8, 0>>, <<1, 2>>, 0, 0, 1),
      FrameCapture(0, <<60, 0, 25, 5, 90>>, <<1, 2>>, 0, 0, 1),
      FrameCapture(1, <<55, 2, 24, 8, 89>>, <<1, 2>>, MaxCut, 0, 0) }

\* let data = self.collect_input(), in a sequence of calls
CollectInputOfRead ==
    /\ pc = "collect"
    /\ data' \in ReadCaptures
    /\ pc' = "parse"
    /\ UNCHANGED <<pinVars, capVars, parseVars, decodeVars, result, returned>>

\* read_sensor_data(&mut self) has returned and is called again; the model
\* keeps what the locals of the last call held, the code gives each call
\* new ones
NextCall ==
    /\ pc = "done"
    /\ returned' = returned \cup {<<data, result>>}
    /\ result' = NoResult
    /\ pc' = "set_output"
    /\ UNCHANGED <<pinVars, data, capVars, parseVars, decodeVars>>

NextReads == Drive \/ CollectInputOfRead \/ Parse \/ Decode \/ NextCall

ReadsSpec == Init /\ [][NextReads]_vars

\* the direction the pin is in when a pin operation is about to run
DirectionRules ==
    /\ pc \in {"set_high", "set_low"} => pin_mode = "Output"
    /\ pc \in {"set_bias", "collect"} => pin_mode = "Input"
    /\ pc = "collect" => pin_bias = "PullUp" /\ pin_level = Low

\* the order of the pin operations of a call
DriveOrder ==
    /\ pin_level' # pin_level => pin_mode = "Output" /\ pin_mode' = "Output"
    /\ pin_bias' # pin_bias => pin_mode = "Input" /\ pin_mode' = "Input"
    /\ pc = "done" => pc' = "set_output"
    /\ pc = "set_output" => pc' = "set_high" /\ pin_mode' = "Output"
    /\ pc = "set_high" => pc' = "set_low" /\ pin_level' = High
    /\ pc = "set_low" => pc' = "set_input" /\ pin_level' = Low
    /\ pc = "set_input" => pc' = "set_bias" /\ pin_mode' = "Input"
    /\ pc = "set_bias" => pc' = "collect" /\ pin_bias' = "PullUp"
    /\ pc = "collect" => pc' = "parse"
    /\ pc' = "parse" => pc = "collect"

\* C16: in any sequence of calls, set_high and set_low run only while the
\* pin is an output, set_bias and the sampling only while it is an input,
\* and each call goes Output -> High -> Low -> Input -> PullUp -> capture,
\* also when the call before it left the pin an input.
C16_PinDirectionRespected == []DirectionRules /\ [][DriveOrder]_vars

\* C16 witness: a call after the first one is about to drive the pin high;
\* the pin, left an input with the pull-up by the call before, is an output
C16_Witness ==
    /\ pc = "set_high"
    /\ returned # {}
    /\ pin_bias = "PullUp"
    /\ pin_mode = "Output"

\* the calls that have returned, the one that is returning included
Outcomes == returned \cup (IF pc = "done" THEN {<<data, result>>} ELSE {})

\* C17: the outcome of a call is a function of the level sequence captured
\* in that call alone: two calls that captured the same sequence returned
\* the same outcome, whatever the calls before them captured or returned.
C17_OutcomeOfCaptureOnly ==
    \A a, b \in Outcomes : a[1] = b[1] => a[2] = b[2]

\* C17 witness: a call returns MissingData for a capture that an earlier
\* call has read, after another call has decoded a whole frame
C17_Witness ==
    /\ pc = "done"
    /\ result = Err("MissingData")
    /\ <<data, result>> \in returned
    /\ \E a \in returned : a[2].kind = "Ok"
    /\ Len(bytes) = 5 /\ Len(lengths) # FRAME_BITS

(***************************************************************************)
(* Uniform pulse trains (UniformSpec)                                      *)
(***************************************************************************)
\* durations of a uniform train: small ones and those around the initial
\* value of shortest_pull_up
UniformDurations ==
    (1..MaxUniform) \cup {SHORTEST_INIT - 1, SHORTEST_INIT, SHORTEST_INIT + 1}

\* duration lists of equal entries, one short of, of and one over the frame
\* length, and full lists in which the first or the last pulse is longer
UniformLists ==
    { Rep(d, n) : d \in UniformDurations, n \in (FRAME_BITS - 1)..(FRAME_BITS + 1) }

NearUniformLists ==
    { [Rep(d, FRAME_BITS) EXCEPT ![i] = d + 1] : d \in UniformDurations, i \in {1, FRAME_BITS} }

\* parse_data_pull_up_lengths has returned the list
InitUniform ==
    /\ pin_mode = "Input" /\ pin_level = Low /\ pin_bias = "PullUp"
    /\ pc = "check_len"
    /\ data = <<>>
    /\ last = Low /\ elapsed = 0 /\ blocked = 0
    /\ state = "InitPullDown" /\ lengths = <<>> /\ current_length = 0
    /\ next = 0 /\ pull_downs = 0
    /\ pull_up_lengths \in UniformLists \cup NearUniformLists
    /\ bits = <<>> /\ bytes = <<>> /\ checksum = -1
    /\ result = NoResult
    /\ returned = {}

NextUniform == Decode

UniformSpec == InitUniform /\ [][NextUniform]_vars

\* all entries of a list are one value, at most the initial shortest_pull_up
UniformAtMostInit(D) ==
    /\ D # <<>>
    /\ \A i \in 1..Len(D) : D[i] = D[1]
    /\ D[1] <= SHORTEST_INIT

\* C18: when the 40 pulse durations are all one value d <= 1000, every bit
\* is false, the five bytes are 0, the checksum check passes and
\* read_sensor_data returns Ok with humidity 0 and temperature 0.
C18_UniformTrainReadsZero ==
    (Len(pull_up_lengths) = FRAME_BITS /\ UniformAtMostInit(pull_up_lengths)) =>
        /\ pc \in {"bytes", "checksum", "ok", "done"} =>
              bits = [i \in 1..FRAME_BITS |-> FALSE]
        /\ pc \in {"checksum", "ok", "done"} => bytes = <<0, 0, 0, 0, 0>>
        /\ pc \in {"ok", "done"} => checksum = 0
        /\ pc = "done" =>
              result = [kind |-> "Ok", humidity10 |-> 0, temperature10 |-> 0]

\* C18 witness: forty pulses of the initial shortest_pull_up were read as
\* humidity 0 and temperature 0
C18_Witness ==
    /\ pc = "done"
    /\ pull_up_lengths = Rep(SHORTEST_INIT, FRAME_BITS)
    /\ result.kind = "Ok"
    /\ result.humidity10 = 0 /\ result.temperature10 = 0

====
